---- MODULE Spec2Model ----
(***************************************************************************)
(* Model of the web_app backend: the /registrar, /login and /consultar     *)
(* handlers (app_routes.py) over the users table (db_models.py), the JWT   *)
(* codec wrapper (jwt_manager.py) and the Grepolis feed merge              *)
(* (grepolis_data.py).                                                     *)
(*                                                                         *)
(* Every handler is a coroutine: it runs atomically between two awaits,    *)
(* and other requests may run at each await.  Each request has its own     *)
(* AsyncSession (db_manager.get_database), so the only shared state is the *)
(* committed content of the users table.                                   *)
(*                                                                         *)
(* Strings of the source that carry accents are written without them.      *)
(***************************************************************************)
EXTENDS Integers, Sequences, FiniteSets, TLC

VARIABLES
    users,      \* committed rows of table "users", in insertion order
    reqs,       \* the /registrar requests in flight, one per slot
    resp,       \* the last response of /login
    clock,      \* current time, in seconds (datetime.now / utcnow)
    ticks,      \* number of clock advances so far
    consulta,   \* the last /consultar exchange, <<>> if none
    agg         \* one run of get_players_data

vars == <<users, reqs, resp, clock, ticks, consulta, agg>>

----------------------------------------------------------------------------
(* Bounds *)

MaxReqs == 2        \* concurrent /registrar requests
MaxTicks == 3       \* clock advances
MaxPlayers == 2     \* rows of the base player feed
MaxKillRows == 2    \* rows of each kill feed

Reqs == 1..MaxReqs

Emails == {"e1", "e2", "e3"}
Nomes == {"n1", "n2"}
Senhas == {"p1", "p2"}
Salts == {"s1"}

----------------------------------------------------------------------------
(* Password hashing: CryptContext(schemes=["sha512_crypt"]).  The digest   *)
(* is a function of the salt and the plaintext; verify recomputes it with  *)
(* the salt embedded in the stored hash.                                   *)

Digest(salt, senha) == <<"sha512", salt, senha>>

PwdHash(senha, salt) == [salt |-> salt, digest |-> Digest(salt, senha)]

\* variant: the plaintext is not compared
PwdVerifyAny(senha, hash) == hash.salt \in Salts

PwdVerify(senha, hash) == hash.digest = Digest(hash.salt, senha)

----------------------------------------------------------------------------
(* JWT: jwt_manager.py over python-jose, HS256 with the process secret.    *)

JWT_SECRET == "secret"
OtherKey == "other"
Hour == 3600

\* HMAC of the claim set under a key: equal only for equal key and claims.
HS256(claims, key) == <<key, claims.sub, claims.exp>>

JwtEncode(claims, key) ==
    [wellformed |-> TRUE, claims |-> claims, sig |-> HS256(claims, key)]

encode(email, now) ==
    JwtEncode([sub |-> email, exp |-> now + Hour], JWT_SECRET)

\* variant: a token is refused from the second of its expiry on
JwtDecodeEarly(token, key, now) ==
    IF ~token.wellformed \/ token.sig # HS256(token.claims, key)
    THEN [exc |-> "JWTError", claims |-> <<>>]
    ELSE IF token.claims.exp <= now
         THEN [exc |-> "ExpiredSignatureError", claims |-> <<>>]
         ELSE [exc |-> "None", claims |-> <<token.claims>>]

\* jose.jwt.decode: signature first (JWTError), then exp
\* (ExpiredSignatureError when exp < now), else the claim set.
JwtDecode(token, key, now) ==
    IF ~token.wellformed \/ token.sig # HS256(token.claims, key)
    THEN [exc |-> "JWTError", claims |-> <<>>]
    ELSE IF token.claims.exp < now
         THEN [exc |-> "ExpiredSignatureError", claims |-> <<>>]
         ELSE [exc |-> "None", claims |-> <<token.claims>>]

validate_token(token, now) ==
    LET d == JwtDecode(token, JWT_SECRET, now) IN
    IF d.exc = "ExpiredSignatureError"
    THEN [status |-> 403, detail |-> "Token expirado.", payload |-> <<>>]
    ELSE IF d.exc = "JWTError"
         THEN [status |-> 403, detail |-> "Token invalido.", payload |-> <<>>]
         ELSE [status |-> 200, detail |-> "", payload |-> d.claims]

----------------------------------------------------------------------------
(* The users table and its queries.                                        *)

User(id, nome, email, senha) ==
    [id |-> id, nome |-> nome, email |-> email, senha |-> senha]

SelectByEmail(email) == SelectSeq(users, LAMBDA u : u.email = email)

SelectByNome(nome) == SelectSeq(users, LAMBDA u : u.nome = nome)

\* Result.scalar_one_or_none(): None for no row, the row for one row,
\* MultipleResultsFound for more.
ScalarOneOrNone(rows) ==
    IF Len(rows) = 0 THEN [exc |-> "None", row |-> <<>>]
    ELSE IF Len(rows) = 1 THEN [exc |-> "None", row |-> <<rows[1]>>]
    ELSE [exc |-> "MultipleResultsFound", row |-> <<>>]

\* email = Column(String, unique=True): the INSERT of a row whose email is
\* already committed fails.  nome carries no constraint.
ViolatesUnique(row) == \E i \in 1..Len(users) : users[i].email = row.email

----------------------------------------------------------------------------
(* Responses *)

Idle == [pc |-> "idle", nome |-> "", email |-> "", senha |-> "",
         status |-> 0, detail |-> "", exc |-> "None", jwt |-> <<>>]

Finish(req, status, detail, exc, jwt) ==
    [req EXCEPT !.pc = "done", !.status = status, !.detail = detail,
                !.exc = exc, !.jwt = jwt]

NoResp == [email |-> "", senha |-> "", status |-> 0, detail |-> "", jwt |-> <<>>]

----------------------------------------------------------------------------
(* POST /registrar, app_routes.py:35-59.  Three awaits: the email select,  *)
(* the name select, the commit.                                            *)

\* variant: the name is looked up before the email
RegistrarCheckNomeFirst(r, nome, email, senha) ==
    /\ reqs[r].pc \in {"idle", "done"}
    /\ LET req == [Idle EXCEPT !.nome = nome, !.email = email, !.senha = senha]
           byNome == ScalarOneOrNone(SelectByNome(nome))
           byEmail == ScalarOneOrNone(SelectByEmail(email))
       IN reqs' = [reqs EXCEPT ![r] =
              IF byNome.exc # "None"
              THEN Finish(req, 500, "Internal Server Error", byNome.exc, <<>>)
              ELSE IF byNome.row # <<>>
                   THEN Finish(req, 400, "Nome indisponivel", "HTTPException", <<>>)
                   ELSE IF byEmail.row # <<>>
                        THEN Finish(req, 400, "Email ja registrado", "HTTPException", <<>>)
                        ELSE [req EXCEPT !.pc = "checkNome"]]
    /\ UNCHANGED <<users, resp, clock, ticks, consulta, agg>>

\* line 48-49
RegistrarCheckEmail(r, nome, email, senha) ==
    /\ reqs[r].pc \in {"idle", "done"}
    /\ LET req == [Idle EXCEPT !.nome = nome, !.email = email, !.senha = senha]
           found == ScalarOneOrNone(SelectByEmail(email))
       IN reqs' = [reqs EXCEPT ![r] =
              IF found.exc # "None"
              THEN Finish(req, 500, "Internal Server Error", found.exc, <<>>)
              ELSE IF found.row # <<>>
                   THEN Finish(req, 400, "Email ja registrado", "HTTPException", <<>>)
                   ELSE [req EXCEPT !.pc = "checkNome"]]
    /\ UNCHANGED <<users, resp, clock, ticks, consulta, agg>>

\* line 51-52
RegistrarCheckNome(r) ==
    /\ reqs[r].pc = "checkNome"
    /\ LET req == reqs[r]
           found == ScalarOneOrNone(SelectByNome(req.nome))
       IN reqs' = [reqs EXCEPT ![r] =
              IF found.exc # "None"
              THEN Finish(req, 500, "Internal Server Error", found.exc, <<>>)
              ELSE IF found.row # <<>>
                   THEN Finish(req, 400, "Nome indisponivel", "HTTPException", <<>>)
                   ELSE [req EXCEPT !.pc = "commit"]]
    /\ UNCHANGED <<users, resp, clock, ticks, consulta, agg>>

\* line 54-59: add, commit, and the token of the response
RegistrarCommit(r) ==
    /\ reqs[r].pc = "commit"
    /\ \E salt \in Salts :
         LET req == reqs[r]
             row == User(Len(users) + 1, req.nome, req.email,
                         PwdHash(req.senha, salt))
         IN IF ViolatesUnique(row)
            THEN /\ reqs' = [reqs EXCEPT ![r] =
                       Finish(req, 500, "Internal Server Error", "IntegrityError", <<>>)]
                 /\ users' = users
            ELSE /\ users' = Append(users, row)
                 /\ reqs' = [reqs EXCEPT ![r] =
                       Finish(req, 200, "", "None", <<encode(req.email, clock)>>)]
    /\ UNCHANGED <<resp, clock, ticks, consulta, agg>>

----------------------------------------------------------------------------
(* POST /login, app_routes.py:62-79.  One await, the email select.         *)

login(email, senha) ==
    /\ LET found == ScalarOneOrNone(SelectByEmail(email))
           in == [NoResp EXCEPT !.email = email, !.senha = senha]
       IN resp' =
              IF found.exc # "None"
              THEN [in EXCEPT !.status = 500, !.detail = "Internal Server Error"]
              ELSE IF found.row = <<>> \/ ~PwdVerify(senha, found.row[1].senha)
                   THEN [in EXCEPT !.status = 401, !.detail = "Credenciais invalidas"]
                   ELSE [in EXCEPT !.status = 200, !.jwt = <<encode(email, clock)>>]
    /\ UNCHANGED <<users, reqs, clock, ticks, consulta, agg>>

----------------------------------------------------------------------------
(* Time.  The clock advances by a second or by an hour.                    *)

Steps == {1, Hour}

Tick(d) ==
    /\ ticks < MaxTicks
    /\ clock' = clock + d
    /\ ticks' = ticks + 1
    /\ UNCHANGED <<users, reqs, resp, consulta, agg>>

----------------------------------------------------------------------------
(* GET /consultar, app_routes.py:82-104.  Depends(validate_token) runs      *)
(* before the handler body; the body calls get_players_data, which         *)
(* downloads the four feeds and may fail.                                  *)

Malformed == [wellformed |-> FALSE, claims |-> [sub |-> "", exp |-> 0],
              sig |-> <<>>]

\* What a client can present once it was given token t: t itself, t with
\* another subject or a later expiry under the old signature, the same
\* claims signed with another key, and a string that is no JWT.
Presentable(t) ==
    {t, Malformed, JwtEncode(t.claims, OtherKey)}
    \cup {[t EXCEPT !.claims.sub = e] : e \in Emails}
    \cup {[t EXCEPT !.claims.exp = t.claims.exp + Hour]}

Issued ==
    {reqs[r].jwt[1] : r \in {q \in Reqs : reqs[q].jwt # <<>>}}
    \cup (IF resp.jwt # <<>> THEN {resp.jwt[1]} ELSE {})

Bearer == {Malformed} \cup UNION {Presentable(t) : t \in Issued}

\* variant: the handler body does not wait for the token check
consultarUnguarded(token, upstream) ==
    /\ LET v == validate_token(token, clock) IN
       consulta' = <<[token |-> token, now |-> clock,
                      status |-> IF v.status # 200 THEN v.status
                                 ELSE IF upstream THEN 200 ELSE 500,
                      detail |-> IF v.status # 200 THEN v.detail
                                 ELSE IF upstream THEN "" ELSE "Internal Server Error",
                      fetched |-> TRUE]>>
    /\ UNCHANGED <<users, reqs, resp, clock, ticks, agg>>

consultar(token, upstream) ==
    /\ LET v == validate_token(token, clock) IN
       consulta' =
          IF v.status # 200
          THEN <<[token |-> token, now |-> clock, status |-> v.status,
                  detail |-> v.detail, fetched |-> FALSE]>>
          ELSE <<[token |-> token, now |-> clock,
                  status |-> IF upstream THEN 200 ELSE 500,
                  detail |-> IF upstream THEN "" ELSE "Internal Server Error",
                  fetched |-> TRUE]>>
    /\ UNCHANGED <<users, reqs, resp, clock, ticks, agg>>

----------------------------------------------------------------------------
(* grepolis_data.py.  A DataFrame is a sequence of rows, a row a function   *)
(* from column names to values.  A column that can hold NaN holds <<>> for *)
(* NaN and <<v>> for the value v.                                          *)

NaN == <<>>

PlayerIds == {1, 2}
Ranks == {1, 2}

\* the name of each player in the feed, as a sequence of characters
RawName == [i \in PlayerIds |->
               IF i = 1 THEN <<"A", "+", "B">> ELSE <<"A", "%", "2", "B", "B">>]
\* player 1 is in no alliance, player 2 is in alliance 7
RawAlliance == [i \in PlayerIds |-> IF i = 1 THEN NaN ELSE <<7>>]

\* rows of players.txt.gz as read_csv types them (alliance_id as float)
PlayerRows ==
    {[id |-> i, name |-> RawName[i], alliance_id |-> RawAlliance[i],
      points |-> 100 * i, rank |-> k, towns |-> 3] :
        i \in PlayerIds, k \in Ranks}

SeqsUpTo(S, n) == UNION {[1..m -> S] : m \in 0..n}

PlayerFeeds == SeqsUpTo(PlayerRows, MaxPlayers)

\* rows of a player_kills_*.txt.gz file: the i-th row has rank i
KillFeeds ==
    {[i \in 1..Len(ids) |-> [rank |-> i, player_id |-> ids[i], points |-> 10 * ids[i]]] :
        ids \in SeqsUpTo(PlayerIds, MaxKillRows)}

\* the percent escapes that occur in RawName
HexChr == [h \in {<<"2", "B">>, <<"2", "0">>} |->
              IF h = <<"2", "B">> THEN "+" ELSE " "]

RECURSIVE unquote(_)
unquote(s) ==
    IF s = <<>> THEN <<>>
    ELSE IF s[1] = "%" /\ Len(s) >= 3 /\ <<s[2], s[3]>> \in DOMAIN HexChr
         THEN <<HexChr[<<s[2], s[3]>>]>> \o unquote(SubSeq(s, 4, Len(s)))
         ELSE <<s[1]>> \o unquote(Tail(s))

\* urllib.parse.unquote_plus: '+' becomes ' ', then the escapes are decoded
unquote_plus(s) ==
    unquote([i \in 1..Len(s) |-> IF s[i] = "+" THEN " " ELSE s[i]])

\* __player_data, lines 52-53
PlayerData(feed) ==
    [i \in 1..Len(feed) |->
        [feed[i] EXCEPT !.name = unquote_plus(@),
                        !.alliance_id = IF @ = NaN THEN -1 ELSE @[1]]]

\* __player_combat_data and the like: rename rank and points
KillData(feed, prefix) ==
    [i \in 1..Len(feed) |->
        (prefix \o "_rank" :> <<feed[i].rank>>)
        @@ ("player_id" :> <<feed[i].player_id>>)
        @@ (prefix \o "_points" :> <<feed[i].points>>)]

RECURSIVE Concat(_)
Concat(ss) == IF ss = <<>> THEN <<>> ELSE ss[1] \o Concat(Tail(ss))

\* DataFrame.merge(right, left_on="id", right_on="player_id", how="left",
\*                 suffixes=(lsuffix, rsuffix)):
\* a column name that both frames have gets the suffix of its side; every
\* left row, in order, is paired with each right row of its id, in order, or
\* with NaN in every right column when there is none.
Suffixed(c, others, suffix) == IF c \in others THEN c \o suffix ELSE c

MergedCols(leftCols, rightCols, lsuffix, rsuffix) ==
    {Suffixed(c, rightCols, lsuffix) : c \in leftCols}
    \cup {Suffixed(c, leftCols, rsuffix) : c \in rightCols}

\* variant: how="inner", a left row without a right row is dropped
MergeInner(left, leftCols, right, rightCols, lsuffix, rsuffix) ==
    LET LName(c) == Suffixed(c, rightCols, lsuffix)
        RName(c) == Suffixed(c, leftCols, rsuffix)
        LRow(row) == [c \in {LName(d) : d \in leftCols} |->
                         row[CHOOSE d \in leftCols : LName(d) = c]]
        RRow(row) == [c \in {RName(d) : d \in rightCols} |->
                         row[CHOOSE d \in rightCols : RName(d) = c]]
        Matches(l) == SelectSeq(right, LAMBDA row : row.player_id = <<l.id>>)
        Joined(l) ==
            [j \in 1..Len(Matches(l)) |-> LRow(l) @@ RRow(Matches(l)[j])]
    IN Concat([i \in 1..Len(left) |-> Joined(left[i])])

Merge(left, leftCols, right, rightCols, lsuffix, rsuffix) ==
    LET LName(c) == Suffixed(c, rightCols, lsuffix)
        RName(c) == Suffixed(c, leftCols, rsuffix)
        LRow(row) == [c \in {LName(d) : d \in leftCols} |->
                         row[CHOOSE d \in leftCols : LName(d) = c]]
        RRow(row) == [c \in {RName(d) : d \in rightCols} |->
                         row[CHOOSE d \in rightCols : RName(d) = c]]
        Nulls == [c \in {RName(d) : d \in rightCols} |-> NaN]
        Matches(l) == SelectSeq(right, LAMBDA row : row.player_id = <<l.id>>)
        Joined(l) ==
            IF Matches(l) = <<>> THEN <<LRow(l) @@ Nulls>>
            ELSE [j \in 1..Len(Matches(l)) |-> LRow(l) @@ RRow(Matches(l)[j])]
    IN Concat([i \in 1..Len(left) |-> Joined(left[i])])

\* DataFrame.drop(columns=...)
Drop(frame, cols) ==
    [i \in 1..Len(frame) |-> [c \in (DOMAIN frame[i]) \ cols |-> frame[i][c]]]

\* DataFrame.sort_values(by="rank"): ascending insertion sort
RECURSIVE Insert(_, _)
Insert(sorted, row) ==
    IF sorted = <<>> THEN <<row>>
    ELSE IF sorted[Len(sorted)].rank <= row.rank THEN Append(sorted, row)
         ELSE Append(Insert(SubSeq(sorted, 1, Len(sorted) - 1), row),
                     sorted[Len(sorted)])

RECURSIVE InsertionSort(_)
InsertionSort(frame) ==
    IF frame = <<>> THEN <<>>
    ELSE Insert(InsertionSort(SubSeq(frame, 1, Len(frame) - 1)), frame[Len(frame)])

\* variant: the frame is left in feed order
SortValuesNone(frame) == frame

SortValues(frame) == InsertionSort(frame)

PlayerCols == {"id", "name", "alliance_id", "points", "rank", "towns"}
KillCols(prefix) == {prefix \o "_rank", "player_id", prefix \o "_points"}

NoAgg == [pc |-> "players", players |-> <<>>, combat |-> <<>>,
          attack |-> <<>>, defense |-> <<>>, cols |-> {}, frame |-> <<>>]

\* get_players_data, lines 127-148, one step per call of the chain
ReadPlayers(feed) ==
    /\ agg.pc = "players"
    /\ agg' = [agg EXCEPT !.pc = "combat", !.players = feed,
                          !.cols = PlayerCols, !.frame = PlayerData(feed)]
    /\ UNCHANGED <<users, reqs, resp, clock, ticks, consulta>>

MergeCombat(feed) ==
    /\ agg.pc = "combat"
    /\ agg' = [agg EXCEPT !.pc = "attack", !.combat = feed,
                  !.cols = MergedCols(@, KillCols("combat"), "_x", "_y"),
                  !.frame = Merge(@, agg.cols, KillData(feed, "combat"),
                                  KillCols("combat"), "_x", "_y")]
    /\ UNCHANGED <<users, reqs, resp, clock, ticks, consulta>>

MergeAttack(feed) ==
    /\ agg.pc = "attack"
    /\ agg' = [agg EXCEPT !.pc = "defense", !.attack = feed,
                  !.cols = MergedCols(@, KillCols("attack"), "", "_atk"),
                  !.frame = Merge(@, agg.cols, KillData(feed, "attack"),
                                  KillCols("attack"), "", "_atk")]
    /\ UNCHANGED <<users, reqs, resp, clock, ticks, consulta>>

MergeDefense(feed) ==
    /\ agg.pc = "defense"
    /\ agg' = [agg EXCEPT !.pc = "drop", !.defense = feed,
                  !.cols = MergedCols(@, KillCols("defense"), "", "_def"),
                  !.frame = Merge(@, agg.cols, KillData(feed, "defense"),
                                  KillCols("defense"), "", "_def")]
    /\ UNCHANGED <<users, reqs, resp, clock, ticks, consulta>>

DroppedCols == {"player_id", "player_id_atk", "player_id_def"}

\* drop raises KeyError when a listed column is missing
DropKeys ==
    /\ agg.pc = "drop"
    /\ agg' = IF DroppedCols \subseteq agg.cols
              THEN [agg EXCEPT !.pc = "sort", !.cols = @ \ DroppedCols,
                               !.frame = Drop(@, DroppedCols)]
              ELSE [agg EXCEPT !.pc = "KeyError"]
    /\ UNCHANGED <<users, reqs, resp, clock, ticks, consulta>>

SortByRank ==
    /\ agg.pc = "sort"
    /\ agg' = [agg EXCEPT !.pc = "done", !.frame = SortValues(@)]
    /\ UNCHANGED <<users, reqs, resp, clock, ticks, consulta>>

----------------------------------------------------------------------------

Init ==
    /\ users = <<>>
    /\ reqs = [r \in Reqs |-> Idle]
    /\ resp = NoResp
    /\ clock = 0
    /\ ticks = 0
    /\ consulta = <<>>
    /\ agg = NoAgg

\* Concurrent registrations.
Next ==
    \/ \E r \in Reqs, nome \in Nomes, email \in Emails :
          RegistrarCheckEmail(r, nome, email, "p1")
    \/ \E r \in Reqs : RegistrarCheckNome(r)
    \/ \E r \in Reqs : RegistrarCommit(r)

Spec == Init /\ [][Next]_vars

\* Registrations and logins.
LoginReqs == {1, 2}
LoginEmails == {"e1", "e2"}

NextLogin ==
    \/ \E r \in LoginReqs, nome \in Nomes, email \in LoginEmails, senha \in Senhas :
          RegistrarCheckEmail(r, nome, email, senha)
    \/ \E r \in LoginReqs : RegistrarCheckNome(r)
    \/ \E r \in LoginReqs : RegistrarCommit(r)
    \/ \E email \in Emails, senha \in Senhas : login(email, senha)

SpecLogin == Init /\ [][NextLogin]_vars

\* Token lifetime: one registration, logins, the clock and /consultar.
NextTok ==
    \/ RegistrarCheckEmail(1, "n1", "e1", "p1")
    \/ RegistrarCheckNome(1)
    \/ RegistrarCommit(1)
    \/ \E email \in {"e1", "e2"} : login(email, "p1")
    \/ \E d \in Steps : Tick(d)
    \/ \E token \in Bearer, upstream \in BOOLEAN : consultar(token, upstream)

SpecTok == Init /\ [][NextTok]_vars

\* One aggregation over every content of the four feeds.
NextAgg ==
    \/ \E feed \in PlayerFeeds : ReadPlayers(feed)
    \/ \E feed \in KillFeeds : MergeCombat(feed)
    \/ \E feed \in KillFeeds : MergeAttack(feed)
    \/ \E feed \in KillFeeds : MergeDefense(feed)
    \/ DropKeys
    \/ SortByRank

SpecAgg == Init /\ [][NextAgg]_vars

----------------------------------------------------------------------------
(* Properties of POST /registrar, checked under Spec.                      *)

EmailStored(email) == \E i \in 1..Len(users) : users[i].email = email
NomeStored(nome) == \E i \in 1..Len(users) : users[i].nome = nome

\* the step in which request r runs its email lookup
EmailStep(r) == reqs[r].pc \in {"idle", "done"} /\ reqs'[r] # reqs[r]
\* the step in which request r runs its name lookup
NomeStep(r) == reqs[r].pc = "checkNome" /\ reqs'[r].pc # "checkNome"
\* the step in which request r commits
CommitStep(r) == reqs[r].pc = "commit" /\ reqs'[r].pc # "commit"

\* C1: in every reachable state no two stored users share an email and no
\* two stored users share a name.
C1_UniqueEmailAndNome ==
    \A i, j \in 1..Len(users) :
        i # j => users[i].email # users[j].email /\ users[i].nome # users[j].nome

\* C2: a request whose email is stored ends with 400 "Email ja registrado",
\* a request with a new email whose name is stored ends with 400 "Nome
\* indisponivel"; neither adds a record nor returns a token.
C2_DuplicatesRejected ==
    [][\A r \in Reqs :
        /\ EmailStep(r) /\ EmailStored(reqs'[r].email) =>
              /\ reqs'[r].pc = "done" /\ reqs'[r].status = 400
              /\ reqs'[r].detail = "Email ja registrado"
              /\ reqs'[r].jwt = <<>> /\ users' = users
        /\ NomeStep(r) /\ NomeStored(reqs[r].nome) =>
              /\ reqs'[r].pc = "done" /\ reqs'[r].status = 400
              /\ reqs'[r].detail = "Nome indisponivel"
              /\ reqs'[r].jwt = <<>> /\ users' = users]_vars

\* C3: a request whose email and name were both found absent succeeds: it
\* adds exactly one record, with its email and name, and its token
\* validates to a claim set whose subject is its email.
C3_FreshRegistrationSucceeds ==
    [][\A r \in Reqs : CommitStep(r) =>
        /\ reqs'[r].status = 200
        /\ Len(users') = Len(users) + 1
        /\ SubSeq(users', 1, Len(users)) = users
        /\ users'[Len(users')].email = reqs[r].email
        /\ users'[Len(users')].nome = reqs[r].nome
        /\ reqs'[r].jwt # <<>>
        /\ validate_token(reqs'[r].jwt[1], clock).payload
              = <<[sub |-> reqs[r].email, exp |-> clock + Hour]>>]_vars

\* C7: of the finished requests that carry the same email, or the same
\* name, at most one has a token, and every request ends with 200 or 400.
C7_RaceLosersGetDuplicate ==
    /\ \A r \in Reqs : reqs[r].pc = "done" => reqs[r].status \in {200, 400}
    /\ \A r, q \in Reqs :
          /\ r # q /\ reqs[r].jwt # <<>> /\ reqs[q].jwt # <<>>
          => reqs[r].email # reqs[q].email /\ reqs[r].nome # reqs[q].nome

\* C10: a request whose email and name are both stored when it arrives
\* ends with the duplicate-email error.
C10_EmailCheckedFirst ==
    [][\A r \in Reqs :
        EmailStep(r) /\ EmailStored(reqs'[r].email) /\ NomeStored(reqs'[r].nome) =>
            /\ reqs'[r].pc = "done" /\ reqs'[r].status = 400
            /\ reqs'[r].detail = "Email ja registrado"]_vars

\* a finished request that was refused for its email while an older record
\* holds its name and a younger one its email
C10_Witness ==
    \E r \in Reqs : \E i, j \in 1..Len(users) :
        /\ i < j /\ users[i].nome = reqs[r].nome /\ users[j].email = reqs[r].email
        /\ reqs[r].pc = "done" /\ reqs[r].detail = "Email ja registrado"

----------------------------------------------------------------------------
(* POST /login, checked under SpecLogin.                                   *)

\* the plaintext a stored hash was computed from
PlainOf(hash) == hash.digest[3]

\* C4: a login step answers 200 with a token whose subject is the email
\* exactly when a stored user has the email and the password is the one its
\* hash was made from; it answers 401 "Credenciais invalidas" without a
\* token for an unknown email and for a wrong password alike, and it leaves
\* the users table as it was.
C4_Login ==
    [][resp' # resp =>
        LET ok == \E i \in 1..Len(users) :
                      /\ users[i].email = resp'.email
                      /\ PlainOf(users[i].senha) = resp'.senha
        IN /\ users' = users
           /\ ok => /\ resp'.status = 200
                    /\ resp'.jwt # <<>>
                    /\ resp'.jwt[1].claims.sub = resp'.email
           /\ ~ok => /\ resp'.status = 401
                     /\ resp'.detail = "Credenciais invalidas"
                     /\ resp'.jwt = <<>>]_vars

\* a login answered with a token while the table holds two users with
\* different passwords
C4_Witness ==
    /\ resp.status = 200 /\ resp.jwt # <<>>
    /\ \E i, j \in 1..Len(users) :
          /\ users[i].email = resp.email
          /\ PlainOf(users[j].senha) # PlainOf(users[i].senha)

----------------------------------------------------------------------------
(* Token lifetime and GET /consultar, checked under SpecTok.               *)

\* the token carries a signature made with the process secret
Genuine(token) ==
    token.wellformed /\ token.sig = <<JWT_SECRET, token.claims.sub, token.claims.exp>>

\* C5: a token is issued with expiry = issue time + 1 hour; presented with
\* its genuine signature it is accepted at every time <= its expiry and
\* refused with 403 "Token expirado." at every later time; a token that is
\* malformed or whose signature does not verify is refused with 403 "Token
\* invalido." at every time.
C5_TokenLifetime ==
    [][/\ \A t \in Issued' \ Issued : t.claims.exp = clock + Hour /\ Genuine(t)
       /\ consulta' # consulta =>
            LET c == consulta'[1] IN
            /\ c.now = clock
            /\ Genuine(c.token) /\ clock <= c.token.claims.exp => c.status # 403
            /\ Genuine(c.token) /\ clock > c.token.claims.exp =>
                  c.status = 403 /\ c.detail = "Token expirado."
            /\ ~Genuine(c.token) =>
                  c.status = 403 /\ c.detail = "Token invalido."]_vars

\* an issued token presented exactly at its expiry
C5_Witness ==
    /\ consulta # <<>>
    /\ consulta[1].token \in Issued
    /\ consulta[1].now = consulta[1].token.claims.exp
    /\ consulta[1].status = 200

\* C6: the feeds are fetched, and 200 is answered, only in a request whose
\* token validate_token accepted; a request with an invalid or expired
\* token ends with 403 and fetches nothing.
C6_FetchOnlyAfterValidation ==
    consulta # <<>> =>
        LET c == consulta[1]
            valid == Genuine(c.token) /\ c.now <= c.token.claims.exp
        IN /\ (c.fetched \/ c.status = 200) => valid
           /\ ~valid => c.status = 403 /\ ~c.fetched
           /\ valid => c.fetched

\* an issued token presented after its expiry, refused without a fetch
C6_Witness ==
    /\ consulta # <<>>
    /\ Genuine(consulta[1].token)
    /\ consulta[1].now > consulta[1].token.claims.exp
    /\ consulta[1].status = 403 /\ ~consulta[1].fetched

----------------------------------------------------------------------------
(* get_players_data, checked under SpecAgg.                                *)

NoDuplicateKey(feed) ==
    \A i, j \in 1..Len(feed) : feed[i].player_id = feed[j].player_id => i = j

KillRowsOf(feed, id) == {k \in 1..Len(feed) : feed[k].player_id = id}

\* the record the claim expects for base row b
ExpectedRecord(b) ==
    LET Field(feed, f) ==
            IF KillRowsOf(feed, b.id) = {} THEN NaN
            ELSE <<feed[CHOOSE k \in KillRowsOf(feed, b.id) : TRUE][f]>>
    IN [id |-> b.id, name |-> unquote_plus(b.name),
        alliance_id |-> IF b.alliance_id = NaN THEN -1 ELSE b.alliance_id[1],
        points |-> b.points, rank |-> b.rank, towns |-> b.towns,
        combat_rank |-> Field(agg.combat, "rank"),
        combat_points |-> Field(agg.combat, "points"),
        attack_rank |-> Field(agg.attack, "rank"),
        attack_points |-> Field(agg.attack, "points"),
        defense_rank |-> Field(agg.defense, "rank"),
        defense_points |-> Field(agg.defense, "points")]

\* the result holds exactly one record per base row, the expected one
OneRecordPerPlayer ==
    /\ Len(agg.frame) = Len(agg.players)
    /\ \A i \in 1..Len(agg.players) :
          Cardinality({j \in 1..Len(agg.frame) :
                          agg.frame[j] = ExpectedRecord(agg.players[i])})
          = Cardinality({j \in 1..Len(agg.players) :
                          ExpectedRecord(agg.players[j]) = ExpectedRecord(agg.players[i])})
    /\ agg.cols \cap {"player_id", "player_id_x", "player_id_y",
                      "player_id_atk", "player_id_def"} = {}

\* C8 as stated: for all contents of the four feeds the result holds exactly
\* one record per base row, with NaN for the fields of a kill feed that has
\* no row for the player, -1 for a missing alliance, and no join key column.
C8_AllFeeds == agg.pc = "done" => OneRecordPerPlayer

\* C8 amended: the same, when no kill feed lists a player id twice.
C8_OneRecordPerPlayer ==
    /\ agg.pc = "done"
    /\ NoDuplicateKey(agg.combat)
    /\ NoDuplicateKey(agg.attack)
    /\ NoDuplicateKey(agg.defense)
    => OneRecordPerPlayer

\* a finished run with a base player without alliance that the combat feed
\* does not list, while the attack feed lists it
C8_Witness ==
    /\ agg.pc = "done"
    /\ NoDuplicateKey(agg.combat) /\ NoDuplicateKey(agg.attack)
    /\ NoDuplicateKey(agg.defense)
    /\ \E i \in 1..Len(agg.players) : \E j \in 1..Len(agg.frame) :
          /\ agg.players[i].alliance_id = NaN
          /\ KillRowsOf(agg.combat, agg.players[i].id) = {}
          /\ KillRowsOf(agg.attack, agg.players[i].id) # {}
          /\ agg.frame[j].id = agg.players[i].id
          /\ agg.frame[j].alliance_id = -1
          /\ agg.frame[j].combat_rank = NaN
          /\ agg.frame[j].attack_rank # NaN

\* C9: the result is in ascending order of the base rank.
C9_SortedByRank ==
    agg.pc = "done" =>
        \A i \in 1..(Len(agg.frame) - 1) :
            agg.frame[i].rank <= agg.frame[i + 1].rank

\* a finished run whose base feed listed a higher rank first
C9_Witness ==
    /\ agg.pc = "done"
    /\ Len(agg.players) >= 2
    /\ agg.players[1].rank > agg.players[2].rank
    /\ Len(agg.frame) >= 2

====
